---- MODULE Spec2Model ----
\* Model of collate_pdfs / _write_batch (src/concatanatePDF.py): the two-phase
\* pipeline that classifies the PDF files of a directory and packs the usable
\* ones greedily into size-bounded bundles.
EXTENDS Integers, Sequences, FiniteSets, TLC

\* ---------------------------------------------------------------- bounds
\* largest number of entries in the source directory
MaxFiles == 3

\* ------------------------------------------------------- names and strings
\* A file name is a sequence of one-character strings.
Letters == <<"A", "B", "C", "D", "E", "F", "L", "O", "P", "R", "T", "X">>
LowerLetters == <<"a", "b", "c", "d", "e", "f", "l", "o", "p", "r", "t", "x">>
LetterPos == <<1, 2, 3, 4, 5, 6, 12, 15, 16, 18, 20, 24>>
DigitChars == <<"0", "1", "2", "3", "4", "5", "6", "7", "8", "9">>

IndexIn(c, s) == CHOOSE k \in 1..Len(s) : s[k] = c

IsUpper(c) == \E k \in 1..Len(Letters) : Letters[k] = c
IsLower(c) == \E k \in 1..Len(LowerLetters) : LowerLetters[k] = c
IsDigit(c) == \E k \in 1..Len(DigitChars) : DigitChars[k] = c

\* ord(c): the code point Python's string comparison orders by
Ord(c) ==
  IF IsUpper(c) THEN 64 + LetterPos[IndexIn(c, Letters)]
  ELSE IF IsLower(c) THEN 96 + LetterPos[IndexIn(c, LowerLetters)]
  ELSE IF IsDigit(c) THEN 47 + IndexIn(c, DigitChars)
  ELSE IF c = "_" THEN 95
  ELSE 46

\* str.lower(), character by character
LowerChar(c) == IF IsUpper(c) THEN LowerLetters[IndexIn(c, Letters)] ELSE c
Lower(s) == [k \in 1..Len(s) |-> LowerChar(s[k])]

\* str.endswith(suffix)
EndsWith(s, suffix) ==
  /\ Len(s) >= Len(suffix)
  /\ SubSeq(s, Len(s) - Len(suffix) + 1, Len(s)) = suffix

DotPdf == <<".", "p", "d", "f">>

\* the filter of the list comprehension at line 58
IsPdfName(name) == EndsWith(Lower(name), DotPdf)

\* s < t in Python's str ordering (lexicographic by code point)
RECURSIVE StrLess(_, _)
StrLess(s, t) ==
  IF t = <<>> THEN FALSE
  ELSE IF s = <<>> THEN TRUE
  ELSE IF Ord(Head(s)) # Ord(Head(t)) THEN Ord(Head(s)) < Ord(Head(t))
  ELSE StrLess(Tail(s), Tail(t))

\* list.sort() on names: insertion into an already sorted list
RECURSIVE InsertSorted(_, _)
InsertSorted(x, sorted) ==
  IF sorted = <<>> THEN <<x>>
  ELSE IF StrLess(x, Head(sorted)) THEN <<x>> \o sorted
  ELSE <<Head(sorted)>> \o InsertSorted(x, Tail(sorted))

RECURSIVE SortNames(_)
SortNames(names) ==
  IF names = <<>> THEN <<>>
  ELSE InsertSorted(Head(names), SortNames(Tail(names)))

\* the decimal digits of a natural number
RECURSIVE Digits(_)
Digits(n) ==
  IF n < 10 THEN <<DigitChars[n + 1]>>
  ELSE Digits(n \div 10) \o <<DigitChars[(n % 10) + 1]>>

\* format(n, "03d"): the digits, padded on the left with zeros to three
PadThree(n) ==
  IF Len(Digits(n)) >= 3 THEN Digits(n)
  ELSE [k \in 1..(3 - Len(Digits(n))) |-> "0"] \o Digits(n)

CollatedPart == <<"C", "o", "l", "l", "a", "t", "e", "d", "_", "P", "a", "r", "t", "_">>

\* line 28: the file name of the bundle of an index
OutputName(index) == CollatedPart \o PadThree(index) \o DotPdf

\* ------------------------------------------------------------ environment
\* What a directory entry is on disk; it decides what PdfReader does with it.
\*   plain       opens, not encrypted
\*   enc_open    opens, encrypted, page count readable
\*   enc_locked  opens, encrypted, page count raises
\*   damaged     opens, not encrypted, page count raises
\*   corrupt     PdfReader raises
\*   dir         a subdirectory: PdfReader raises
Kinds == {"plain", "enc_open", "enc_locked", "damaged", "corrupt", "dir"}

Opens(kind) == kind \in {"plain", "enc_open", "enc_locked", "damaged"}
IsEncrypted(kind) == kind \in {"enc_open", "enc_locked"}
PagesReadable(kind) == kind \in {"plain", "enc_open"}

\* byte sizes (scaled) and target sizes the inputs are drawn from
Sizes == {1, 3, 5}
Targets == {4}

\* the i-th entry of a directory is called Stems[i] plus an extension
Stems == <<"b", "A", "d", "C", "e", "F">>
PdfExts == << <<".", "p", "d", "f">>, <<".", "P", "D", "F">>,
              <<".", "P", "d", "f">>, <<".", "p", "d", "f">>,
              <<".", "p", "D", "f">>, <<".", "P", "D", "F">> >>
DotTxt == <<".", "t", "x", "t">>
\* a name that contains "pdf" but does not end in ".pdf"
JustPdf == <<"p", "d", "f">>

PdfNameOf(k) == <<Stems[k]>> \o PdfExts[k]

\* the entry of slot k that is not named like a PDF file: a text file in the
\* odd slots, a subdirectory in the even slots
OtherOption(k) ==
  IF k % 2 = 1
    THEN [name |-> <<Stems[k]>> \o DotTxt, kind |-> "plain", size |-> 1]
    ELSE [name |-> <<Stems[k]>> \o JustPdf, kind |-> "dir", size |-> 1]

\* the kinds other than plain that the PDF-named entry of slot k can have:
\* every kind is offered in one slot out of two
OtherKindsAt(k) ==
  IF k % 2 = 1
    THEN {"enc_open", "enc_locked", "corrupt"}
    ELSE {"damaged", "enc_locked", "dir"}

\* the entries the k-th slot of the directory can hold; the size of an entry
\* that is never size-probed is fixed, and so is that of an encrypted file
EntryOptions(k) ==
     [name : {PdfNameOf(k)}, kind : {"plain"}, size : Sizes]
  \cup [name : {PdfNameOf(k)}, kind : OtherKindsAt(k), size : {1}]
  \cup {OtherOption(k)}

\* the directories of n entries: slot k holds one of EntryOptions(k)
RECURSIVE DirsOfSize(_)
DirsOfSize(n) ==
  IF n = 0 THEN {<<>>}
  ELSE {Append(d, e) : d \in DirsOfSize(n - 1), e \in EntryOptions(n)}

\* The directory of the worked scenario: five plain PDF files whose sizes, in
\* sorted name order, are 30, 30, 30, 90 and 10 MB (in units of 10 MB), packed
\* with a target of 80 MB.
Scenario == [sizes |-> <<3, 3, 3, 9, 1>>, target |-> 8]

ScenarioNames == SortNames([k \in 1..Len(Scenario.sizes) |-> PdfNameOf(k)])

ScenarioSizeOf(name) == Scenario.sizes[IndexIn(name, ScenarioNames)]

\* slot k of the scenario directory, readable or corrupt
ScenarioOptions(k) ==
  [name : {PdfNameOf(k)}, kind : {"plain", "corrupt"}, size : {ScenarioSizeOf(PdfNameOf(k))}]

ScenarioDirs ==
  { d \in [1..Len(Scenario.sizes) -> UNION {ScenarioOptions(k) : k \in 1..Len(Scenario.sizes)}] :
      \A k \in 1..Len(Scenario.sizes) : d[k] \in ScenarioOptions(k) }

\* ------------------------------------------------------------------ state
VARIABLES
  srcExists,           \* os.path.isdir(source_path)
  outExists,           \* os.path.isdir(output_path)
  dir,                 \* the entries of the source directory
  target_bytes,        \* the target_bytes argument
  output_path,         \* the folder output_path names: "out", or "src" when it
                       \* is the source folder itself
  close_raises,        \* whether merger.close raises in this run
  status,              \* whether a status sink is passed to collate_pdfs
  pc,                  \* position of collate_pdfs
  all_files,           \* sorted names of the candidates
  i,                   \* 0-based index of the running for loop
  valid_files,         \* names classified usable, in scan order
  excluded_files,      \* names classified excluded, in scan order
  current_batch,       \* members of the open bundle
  current_batch_size,  \* their total size
  batch_index,         \* 1-based index of the open bundle
  flushed,             \* the calls of _write_batch so far, in order
  log,                 \* the lines given to log, in order
  result,              \* the returned dictionary, once returned
  error,               \* the exception that left collate_pdfs, if any
  status_calls,        \* the notifications sent to the status sink
  source_dir,          \* PDFCollatorApp.source_dir: "" or a path
  output_dir,          \* PDFCollatorApp.output_dir: "" or a path
  target_size_str,     \* PDFCollatorApp.target_size_str
  status_var,          \* PDFCollatorApp.status_var
  is_processing,       \* PDFCollatorApp.is_processing
  start_btn,           \* state of PDFCollatorApp.start_btn
  workers,             \* position of each thread started on process_pdfs
  clicks               \* number of clicks on the start button so far

vars == <<srcExists, outExists, dir, target_bytes, output_path, close_raises, status, pc, all_files, i, valid_files,
          excluded_files, current_batch, current_batch_size, batch_index, flushed,
          log, result, error, status_calls, source_dir, output_dir, target_size_str,
          status_var, is_processing, start_btn, workers, clicks>>

env == <<srcExists, outExists, dir, target_bytes, output_path, close_raises, status>>

gui == <<source_dir, output_dir, target_size_str, status_var, is_processing, start_btn,
         workers, clicks>>

NoResult == [processed |-> -1, skipped |-> -1, skipped_files |-> <<>>, batches |-> -1]

Line(t, f, n) == [t |-> t, f |-> f, n |-> n]

EntryOf(name) == dir[CHOOSE k \in DOMAIN dir : dir[k].name = name]

Locals0 ==
  /\ pc = "start"
  /\ all_files = <<>>
  /\ i = 0
  /\ valid_files = <<>>
  /\ excluded_files = <<>>
  /\ current_batch = <<>>
  /\ current_batch_size = 0
  /\ batch_index = 1
  /\ flushed = <<>>
  /\ log = <<>>
  /\ result = NoResult
  /\ error = "none"
  /\ status_calls = <<>>

\* a call of collate_pdfs on any directory of at most MaxFiles entries; the
\* content of a source directory that does not exist is immaterial. A writer
\* whose close raises is met in the runs of InitScenario and InitSameDir.
InitBounded ==
  /\ srcExists \in BOOLEAN
  /\ outExists \in BOOLEAN
  /\ target_bytes \in Targets
  /\ output_path = "out"
  /\ close_raises = FALSE
  /\ status = TRUE
  /\ \E n \in 0..MaxFiles : dir \in DirsOfSize(n)
  /\ (~srcExists => dir = <<>>)
  /\ Locals0

\* a call of collate_pdfs on the scenario directory
InitScenario ==
  /\ srcExists = TRUE
  /\ outExists = TRUE
  /\ target_bytes = Scenario.target
  /\ output_path = "out"
  /\ close_raises \in BOOLEAN
  /\ status = TRUE
  /\ dir \in ScenarioDirs
  /\ Locals0

\* the directories of a run whose output folder is its source folder: one
\* plain PDF file and a file that bears the name of an output file
SameDirDirs ==
  { <<e, c>> : e \in [name : {PdfNameOf(2)}, kind : {"plain"}, size : Sizes],
               c \in [name : {OutputName(1), OutputName(2)},
                      kind : {"plain", "corrupt"}, size : Sizes] }

\* a call of collate_pdfs with output_path = source_path
InitSameDir ==
  /\ srcExists = TRUE
  /\ outExists = TRUE
  /\ target_bytes \in Targets
  /\ output_path = "src"
  /\ close_raises \in BOOLEAN
  /\ status = TRUE
  /\ dir \in SameDirDirs
  /\ Locals0

\* the directories of a run long enough for a second notification: six PDF
\* files of size 1, all plain but for the first of the sorted list
\* (PdfNameOf(2)), which is plain or corrupt
LongLen == 6
LongDirs ==
  { [k \in 1..LongLen |->
       [name |-> PdfNameOf(k), kind |-> IF k = 2 THEN first ELSE "plain", size |-> 1]] :
    first \in {"plain", "corrupt"} }

\* a call of collate_pdfs on six files, with or without a status sink
InitLong ==
  /\ srcExists = TRUE
  /\ outExists = TRUE
  /\ target_bytes \in Targets
  /\ output_path = "out"
  /\ close_raises = FALSE
  /\ status \in BOOLEAN
  /\ dir \in LongDirs
  /\ Locals0

\* lines 146 to 151: the application after __init__, no thread started
GuiIdle ==
  /\ source_dir = ""
  /\ output_dir = ""
  /\ target_size_str = "80"
  /\ status_var = "Ready"
  /\ is_processing = FALSE
  /\ start_btn = "normal"
  /\ workers = <<>>
  /\ clicks = 0

Init == (InitBounded \/ InitScenario \/ InitSameDir \/ InitLong) /\ GuiIdle

\* ------------------------------------------------- reading the directory
\* os.listdir returns the names of the entries in an arbitrary order
Listings == { [k \in 1..Len(dir) |-> dir[order[k]].name] : order \in Permutations(1..Len(dir)) }

\* lines 58, 59: the names ending in ".pdf" whatever their case, sorted
ScanNames(listing) == SortNames(SelectSeq(listing, IsPdfName))

\* is_locked with every encrypted file taken as locked
IsLockedIfEncrypted(kind) ==
  IF Opens(kind) THEN IsEncrypted(kind) ELSE TRUE

\* lines 72 to 81: is_locked after the two nested try blocks
IsLocked(kind) ==
  IF Opens(kind)
    THEN IF IsEncrypted(kind)
           THEN ~PagesReadable(kind)
           ELSE FALSE
    ELSE TRUE

\* lines 66 to 87 run over a whole list: the valid and the excluded names
RECURSIVE ClassifyAll(_)
ClassifyAll(files) ==
  IF files = <<>> THEN [valid |-> <<>>, excluded |-> <<>>]
  ELSE LET n == Len(files)
           front == ClassifyAll(SubSeq(files, 1, n - 1))
       IN IF IsLocked(EntryOf(files[n]).kind)
            THEN [front EXCEPT !.excluded = Append(@, files[n])]
            ELSE [front EXCEPT !.valid = Append(@, files[n])]

\* ------------------------------------------------------- lines 51 to 61
\* line 51: the source folder does not exist
RaiseNoSource ==
  /\ pc = "start"
  /\ ~srcExists
  /\ pc' = "raised"
  /\ error' = "no_source"
  /\ UNCHANGED <<env, gui, status_calls, all_files, i, valid_files, excluded_files, current_batch,
                 current_batch_size, batch_index, flushed, log, result>>

\* RaiseNoOutput with the output folder checked only after the scan of phase 1
RaiseNoOutputLate ==
  /\ pc = "start"
  /\ srcExists
  /\ ~outExists
  /\ \E listing \in Listings :
       /\ all_files' = ScanNames(listing)
       /\ valid_files' = ClassifyAll(ScanNames(listing)).valid
       /\ excluded_files' = ClassifyAll(ScanNames(listing)).excluded
       /\ i' = Len(ScanNames(listing))
  /\ pc' = "raised"
  /\ error' = "no_output"
  /\ UNCHANGED <<env, gui, status_calls, current_batch, current_batch_size, batch_index, flushed,
                 log, result>>

\* line 53: the output folder does not exist
RaiseNoOutput ==
  /\ pc = "start"
  /\ srcExists
  /\ ~outExists
  /\ pc' = "raised"
  /\ error' = "no_output"
  /\ UNCHANGED <<env, gui, status_calls, all_files, i, valid_files, excluded_files, current_batch,
                 current_batch_size, batch_index, flushed, log, result>>

\* lines 56 to 61 when no name matches
RaiseNoPdf ==
  /\ pc = "start"
  /\ srcExists
  /\ outExists
  /\ \E listing \in Listings :
       /\ ScanNames(listing) = <<>>
       /\ all_files' = ScanNames(listing)
  /\ log' = Append(log, Line("scanning", <<>>, 0))
  /\ pc' = "raised"
  /\ error' = "no_pdf"
  /\ UNCHANGED <<env, gui, status_calls, i, valid_files, excluded_files, current_batch,
                 current_batch_size, batch_index, flushed, result>>

\* lines 56 to 67 when some name matches
Scan ==
  /\ pc = "start"
  /\ srcExists
  /\ outExists
  /\ \E listing \in Listings :
       /\ ScanNames(listing) # <<>>
       /\ all_files' = ScanNames(listing)
  /\ log' = log \o <<Line("scanning", <<>>, 0), Line("phase1", <<>>, 0)>>
  /\ valid_files' = <<>>
  /\ excluded_files' = <<>>
  /\ i' = 0
  /\ pc' = "classify"
  /\ UNCHANGED <<env, gui, status_calls, current_batch, current_batch_size, batch_index, flushed,
                 result, error>>

\* ------------------------------------------------------- lines 69 to 103
\* lines 89, 127: i % 5
StatusEvery == 5

\* lines 89, 90 and 127, 128: the notifications after the item at 0-based
\* position index of a list of total items has been handled
StatusAfter(calls, sink, phase, index, total) ==
  IF sink /\ index % StatusEvery = 0
    THEN Append(calls, [t |-> phase, n |-> index + 1, of |-> total])
    ELSE calls

\* ClassifyOne with the loop left at the first excluded file
ClassifyOneBreak ==
  /\ pc = "classify"
  /\ i < Len(all_files)
  /\ LET filename == all_files[i + 1]
         is_locked == IsLocked(EntryOf(filename).kind)
     IN IF is_locked
          THEN /\ excluded_files' = Append(excluded_files, filename)
               /\ log' = Append(log, Line("excluded", filename, 0))
               /\ i' = Len(all_files)
               /\ UNCHANGED valid_files
          ELSE /\ valid_files' = Append(valid_files, filename)
               /\ i' = i + 1
               /\ UNCHANGED <<excluded_files, log>>
  /\ status_calls' = StatusAfter(status_calls, status, "scanning", i, Len(all_files))
  /\ UNCHANGED <<env, gui, pc, all_files, current_batch, current_batch_size,
                 batch_index, flushed, result, error>>

\* ValidAfter with the append of line 87 outside the else
ValidAfterAlways(valid, filename, is_locked) == Append(valid, filename)

\* lines 83 to 87: valid_files after one file
ValidAfter(valid, filename, is_locked) ==
  IF is_locked THEN valid ELSE Append(valid, filename)

\* one iteration of the loop at line 69
ClassifyOne ==
  /\ pc = "classify"
  /\ i < Len(all_files)
  /\ LET filename == all_files[i + 1]
         is_locked == IsLocked(EntryOf(filename).kind)
     IN /\ valid_files' = ValidAfter(valid_files, filename, is_locked)
        /\ IF is_locked
             THEN /\ excluded_files' = Append(excluded_files, filename)
                  /\ log' = Append(log, Line("excluded", filename, 0))
             ELSE UNCHANGED <<excluded_files, log>>
  /\ i' = i + 1
  /\ status_calls' = StatusAfter(status_calls, status, "scanning", i, Len(all_files))
  /\ UNCHANGED <<env, gui, pc, all_files, current_batch, current_batch_size,
                 batch_index, flushed, result, error>>

\* Report with the all-valid line whatever was excluded
ReportAllValid == <<Line("all_valid", <<>>, 0)>>

\* lines 92 to 98: the report after the scan
Report ==
  IF excluded_files # <<>>
    THEN <<Line("report_head", <<>>, 0),
           Line("report_skipped", <<>>, Len(excluded_files)),
           Line("report_valid", <<>>, Len(valid_files)),
           Line("report_foot", <<>>, 0)>>
    ELSE <<Line("all_valid", <<>>, 0)>>

\* line 100: not valid_files
NoneValidNever(valid) == FALSE
NoneValid(valid) == valid = <<>>

\* lines 92 to 101 when no file is valid
RaiseAllExcluded ==
  /\ pc = "classify"
  /\ i = Len(all_files)
  /\ NoneValid(valid_files)
  /\ log' = log \o Report
  /\ pc' = "raised"
  /\ error' = "all_excluded"
  /\ UNCHANGED <<env, gui, status_calls, all_files, i, valid_files, excluded_files, current_batch,
                 current_batch_size, batch_index, flushed, result>>

\* StartPacking with the loop at line 69 left after any iteration
StartPackingEarly ==
  /\ pc = "classify"
  /\ i >= 1
  /\ ~NoneValid(valid_files)
  /\ log' = log \o Report \o <<Line("phase2", <<>>, Len(valid_files))>>
  /\ current_batch' = <<>>
  /\ current_batch_size' = 0
  /\ batch_index' = 1
  /\ i' = 0
  /\ pc' = "pack"
  /\ UNCHANGED <<env, gui, status_calls, all_files, valid_files, excluded_files, flushed, result, error>>

\* lines 92 to 108 when some file is valid
StartPacking ==
  /\ pc = "classify"
  /\ i = Len(all_files)
  /\ ~NoneValid(valid_files)
  /\ log' = log \o Report \o <<Line("phase2", <<>>, Len(valid_files))>>
  /\ current_batch' = <<>>
  /\ current_batch_size' = 0
  /\ batch_index' = 1
  /\ i' = 0
  /\ pc' = "pack"
  /\ UNCHANGED <<env, gui, status_calls, all_files, valid_files, excluded_files, flushed, result, error>>

\* ------------------------------------------------------- _write_batch
\* the outcomes of merger.append for the members of a bundle of n files
AppendOutcomes(n) == [1..n -> BOOLEAN]

\* AppendStep with a failure losing what the writer holds
AppendStepReset(merged, pdf, ok) == IF ok THEN Append(merged, pdf) ELSE <<>>

\* lines 35 to 38: the content of the writer after merger.append(pdf)
\* returned (ok) or raised
AppendStep(merged, pdf, ok) == IF ok THEN Append(merged, pdf) ELSE merged

\* the members whose append succeeded, in order
RECURSIVE Appended(_, _)
Appended(file_list, appendOK) ==
  IF file_list = <<>> THEN <<>>
  ELSE LET n == Len(file_list)
           front == Appended(SubSeq(file_list, 1, n - 1), appendOK)
       IN AppendStep(front, file_list[n], appendOK[n])

\* line 38: one line for each member whose append raised
RECURSIVE AppendSkips(_, _)
AppendSkips(file_list, appendOK) ==
  IF file_list = <<>> THEN <<>>
  ELSE LET n == Len(file_list)
           front == AppendSkips(SubSeq(file_list, 1, n - 1), appendOK)
       IN IF appendOK[n] THEN front ELSE Append(front, Line("skip_append", file_list[n], 0))

\* lines 34 to 38: the files merger.append is called with, in order
RECURSIVE AppendAttempts(_, _)
AppendAttempts(file_list, appendOK) ==
  IF file_list = <<>> THEN <<>>
  ELSE LET n == Len(file_list)
       IN Append(AppendAttempts(SubSeq(file_list, 1, n - 1), appendOK), file_list[n])

\* what lines 40, 41 do: the file is opened and written ("saved"), open
\* raises ("open_failed"), or the file is opened and merger.write raises
\* ("write_failed")
WriteOutcomes == {"saved", "open_failed", "write_failed"}

\* lines 43 to 47: the number of calls of merger.close in one _write_batch
WriterClosesOnSuccess(write) == IF write = "saved" THEN 1 ELSE 0
WriterCloses(write) == 1

\* whether an exception leaves _write_batch; one raised by merger.close is
\* swallowed at line 46
WriteBatchRaises(write, closeOK) == write # "saved"

\* _write_batch(file_list, output_path, index, log): the call as recorded in
\* flushed, and the lines it logs; when lines 40, 41 do not succeed the
\* exception leaves _write_batch
WriteBatchCall(file_list, index, appendOK, write, closeOK) ==
  [index |-> index,
   path |-> [folder |-> output_path, name |-> OutputName(index)],
   members |-> file_list,
   attempts |-> AppendAttempts(file_list, appendOK),
   appended |-> Appended(file_list, appendOK),
   created |-> write # "open_failed",
   ok |-> write = "saved",
   closes |-> WriterCloses(write),
   close_raised |-> ~closeOK]

WriteBatchLines(file_list, index, appendOK, write) ==
  <<Line("writing", <<>>, index)>>
    \o AppendSkips(file_list, appendOK)
    \o (IF write = "saved" THEN <<Line("saved", <<>>, index)>> ELSE <<>>)

\* ------------------------------------------------------- lines 110 to 138
\* line 118: the bundle is flushed before the file is added
NeedsFlushIgnoringFile(batch, batch_size, file_size, target) ==
  batch # <<>> /\ batch_size > target
NeedsFlushAtTarget(batch, batch_size, file_size, target) ==
  batch # <<>> /\ batch_size + file_size >= target
NeedsFlush(batch, batch_size, file_size, target) ==
  batch # <<>> /\ batch_size + file_size > target

\* line 121: the bundle opened after a flush
BatchAfterFlushKept(batch) == batch
BatchAfterFlush(batch) == <<>>

\* lines 114 to 116: the bundle after a size probe that failed
BatchAfterSkipAdded(batch, filename) == Append(batch, filename)
BatchAfterSkip(batch, filename) == batch

\* line 130: there is a trailing bundle to flush
HasTrailingNever(batch) == FALSE
HasTrailing(batch) == batch # <<>>

\* IndexAfterFlush without the increment of line 120
IndexAfterFlushSame(index) == index

\* line 120: batch_index after a flush inside the loop
IndexAfterFlush(index) == index + 1

\* one iteration of the loop at line 110; sizeOK is whether os.path.getsize
\* returns
PackOne ==
  /\ pc = "pack"
  /\ i < Len(valid_files)
  /\ LET filename == valid_files[i + 1]
         file_size == EntryOf(filename).size
     IN \E sizeOK \in BOOLEAN :
          IF ~sizeOK
            THEN /\ log' = Append(log, Line("skip_size", filename, 0))
                 /\ i' = i + 1
                 /\ current_batch' = BatchAfterSkip(current_batch, filename)
                 /\ UNCHANGED <<pc, current_batch_size, batch_index, flushed, error,
                                status_calls>>
            ELSE IF NeedsFlush(current_batch, current_batch_size, file_size, target_bytes)
              THEN \E appendOK \in AppendOutcomes(Len(current_batch)),
                      write \in WriteOutcomes, closeOK \in {~close_raises} :
                     /\ flushed' = Append(flushed,
                          WriteBatchCall(current_batch, batch_index, appendOK, write, closeOK))
                     /\ log' = log \o WriteBatchLines(current_batch, batch_index, appendOK, write)
                     /\ IF ~WriteBatchRaises(write, closeOK)
                          THEN /\ batch_index' = IndexAfterFlush(batch_index)
                               /\ current_batch' = Append(BatchAfterFlush(current_batch), filename)
                               /\ current_batch_size' = file_size
                               /\ i' = i + 1
                               /\ status_calls' = StatusAfter(status_calls, status,
                                      "collating", i, Len(valid_files))
                               /\ UNCHANGED <<pc, error>>
                          ELSE /\ pc' = "raised"
                               /\ error' = "write_failed"
                               /\ UNCHANGED <<batch_index, current_batch,
                                              current_batch_size, i, status_calls>>
              ELSE /\ current_batch' = Append(current_batch, filename)
                   /\ current_batch_size' = current_batch_size + file_size
                   /\ i' = i + 1
                   /\ status_calls' = StatusAfter(status_calls, status,
                          "collating", i, Len(valid_files))
                   /\ UNCHANGED <<pc, batch_index, flushed, log, error>>
  /\ UNCHANGED <<env, gui, all_files, valid_files, excluded_files, result>>

\* Result with every candidate counted as processed
ResultAllProcessed ==
  [processed |-> Len(all_files), skipped |-> Len(excluded_files),
   skipped_files |-> excluded_files, batches |-> batch_index]

\* lines 133 to 138
Result ==
  [processed |-> Len(valid_files), skipped |-> Len(excluded_files),
   skipped_files |-> excluded_files, batches |-> batch_index]

\* lines 130 to 138: the final flush and the return
Finish ==
  /\ pc = "pack"
  /\ i = Len(valid_files)
  /\ IF HasTrailing(current_batch)
       THEN \E appendOK \in AppendOutcomes(Len(current_batch)),
               write \in WriteOutcomes, closeOK \in {~close_raises} :
              /\ flushed' = Append(flushed,
                   WriteBatchCall(current_batch, batch_index, appendOK, write, closeOK))
              /\ log' = log \o WriteBatchLines(current_batch, batch_index, appendOK, write)
              /\ IF ~WriteBatchRaises(write, closeOK)
                   THEN /\ pc' = "returned"
                        /\ result' = Result
                        /\ UNCHANGED error
                   ELSE /\ pc' = "raised"
                        /\ error' = "write_failed"
                        /\ UNCHANGED result
       ELSE /\ pc' = "returned"
            /\ result' = Result
            /\ UNCHANGED <<flushed, log, error>>
  /\ UNCHANGED <<env, gui, status_calls, all_files, i, valid_files, excluded_files, current_batch,
                 current_batch_size, batch_index>>

Next ==
  \/ RaiseNoSource
  \/ RaiseNoOutput
  \/ RaiseNoPdf
  \/ Scan
  \/ ClassifyOne
  \/ RaiseAllExcluded
  \/ StartPacking
  \/ PackOne
  \/ Finish

Spec == Init /\ [][Next]_vars

TypeOK ==
  /\ pc \in {"start", "classify", "pack", "returned", "raised"}
  /\ output_path \in {"src", "out"}
  /\ error \in {"none", "no_source", "no_output", "no_pdf", "all_excluded", "write_failed"}
  /\ i \in 0..Len(dir)
  /\ batch_index \in 1..(Len(dir) + 1)
  /\ Len(all_files) <= Len(dir)
  /\ current_batch_size >= 0

\* ------------------------------------------------------- observations
SizeOf(name) == EntryOf(name).size

RECURSIVE TotalSize(_)
TotalSize(names) ==
  IF names = <<>> THEN 0 ELSE SizeOf(Head(names)) + TotalSize(Tail(names))

\* the member lists of the flushed bundles, concatenated in flush order
RECURSIVE Flatten(_)
Flatten(calls) ==
  IF calls = <<>> THEN <<>> ELSE Head(calls).members \o Flatten(Tail(calls))

\* the names whose size probe failed (line 115)
SkippedSize == {log[k].f : k \in {j \in DOMAIN log : log[j].t = "skip_size"}}
Probed(name) == name \notin SkippedSize

\* the open bundle: current_batch until it has been handed to _write_batch
OpenBatch ==
  IF flushed # <<>> /\ flushed[Len(flushed)].index = batch_index
    THEN <<>>
    ELSE current_batch

Packing == pc \in {"pack", "returned"} \/ error = "write_failed"

Oversized(name) == SizeOf(name) > target_bytes

\* ------------------------------------------------------- claims
\* C1 as stated: when collate_pdfs returns, the member lists of the bundles
\* it flushed, concatenated in bundle-index order, are exactly the usable list.
C1_AsClaimed ==
  pc = "returned" => Flatten(flushed) = valid_files

\* C1 as amended: the k-th flushed bundle has index k, and at every point of
\* the packing phase the flushed bundles followed by the open bundle are
\* exactly the usable candidates handled so far whose size probe succeeded, in
\* their original order (none duplicated, none omitted); when collate_pdfs
\* returns, all usable candidates have been handled and no bundle is open. A
\* usable candidate whose size probe failed is in no bundle.
C1_BundlesPartitionProbed ==
  Packing =>
    /\ \A k \in DOMAIN flushed : flushed[k].index = k
    /\ Flatten(flushed) \o OpenBatch = SelectSeq(SubSeq(valid_files, 1, i), Probed)
    /\ (pc = "returned" => i = Len(valid_files) /\ OpenBatch = <<>>)

C1_Witness ==
  /\ pc = "returned"
  /\ Len(flushed) >= 2
  /\ SkippedSize # {}
  /\ Len(Flatten(flushed)) < Len(valid_files)

\* C2: every flushed bundle, and the open bundle at every point of the packing
\* loop, has total size <= target_bytes unless it has exactly one member; the
\* running size is the total size of the members.
C2_SizeBound ==
  Packing =>
    /\ \A k \in DOMAIN flushed :
         TotalSize(flushed[k].members) <= target_bytes \/ Len(flushed[k].members) = 1
    /\ current_batch_size = TotalSize(current_batch)
    /\ current_batch_size <= target_bytes \/ Len(current_batch) = 1

C2_Witness ==
  /\ pc = "returned"
  /\ \E k \in DOMAIN flushed :
       Len(flushed[k].members) >= 2 /\ TotalSize(flushed[k].members) = target_bytes
  /\ \E k \in DOMAIN flushed :
       Len(flushed[k].members) = 1 /\ TotalSize(flushed[k].members) > target_bytes

\* the position of a name in a list of distinct names
PosIn(name, names) == CHOOSE k \in 1..Len(names) : names[k] = name
InSeq(name, names) == \E k \in 1..Len(names) : names[k] = name

\* C3 as stated: an oversized usable candidate is the only member of the
\* bundle it is flushed in, and when the run has ended every usable candidate
\* after it (other than those whose size probe failed) is in a bundle flushed
\* later with a higher index.
C3_AsClaimed ==
  \A k \in DOMAIN flushed :
    \A m \in DOMAIN flushed[k].members :
      Oversized(flushed[k].members[m]) =>
        /\ Len(flushed[k].members) = 1
        /\ (pc \in {"returned", "raised"} =>
              \A q \in (PosIn(flushed[k].members[m], valid_files) + 1)..Len(valid_files) :
                Probed(valid_files[q]) =>
                  \E j \in DOMAIN flushed :
                    /\ j > k
                    /\ flushed[j].index > flushed[k].index
                    /\ InSeq(valid_files[q], flushed[j].members))

\* the step handles the next usable candidate and its size probe succeeds
HandlesNext ==
  /\ pc = "pack"
  /\ i < Len(valid_files)
  /\ log' # Append(log, Line("skip_size", valid_files[i + 1], 0))

C4_FlushIff ==
  HandlesNext =>
    ((flushed' # flushed) <=>
       (current_batch # <<>>
          /\ current_batch_size + SizeOf(valid_files[i + 1]) > target_bytes))

C4_Consecutive ==
  /\ \A k \in 1..(Len(flushed) - 1) :
       TotalSize(flushed[k].members) + SizeOf(Head(flushed[k + 1].members)) > target_bytes
  /\ (flushed # <<>> /\ OpenBatch # <<>>) =>
       TotalSize(flushed[Len(flushed)].members) + SizeOf(Head(OpenBatch)) > target_bytes

\* the scenario run: all five files readable, no size probe failed
ScenarioRun ==
  /\ Len(dir) = Len(Scenario.sizes)
  /\ target_bytes = Scenario.target
  /\ \A k \in DOMAIN dir : dir[k].kind = "plain" /\ dir[k].size = ScenarioSizeOf(dir[k].name)
  /\ SkippedSize = {}

C4_Scenario ==
  (ScenarioRun /\ pc = "returned") =>
    /\ [k \in DOMAIN flushed |-> flushed[k].members] =
         << <<ScenarioNames[1], ScenarioNames[2]>>, <<ScenarioNames[3]>>,
            <<ScenarioNames[4]>>, <<ScenarioNames[5]>> >>
    /\ result.batches = 4

\* C4: the open bundle is flushed before a candidate is added exactly when it
\* is non-empty and its size plus the candidate's exceeds target_bytes; for
\* consecutive bundles the size of the earlier plus the size of the first
\* member of the later exceeds target_bytes; sizes 30, 30, 30, 90, 10 with
\* target 80 give the four bundles [A,B], [C], [D], [E].
C4_Greedy == [](C4_Consecutive /\ C4_Scenario) /\ [][C4_FlushIff]_vars

C4_Witness ==
  /\ ScenarioRun
  /\ pc = "returned"
  /\ Len(flushed) = 4

\* C5 as stated: a bundle whose write failed is logged with its name and the
\* run is not aborted by it.
C5_AsClaimed ==
  \A k \in DOMAIN flushed :
    ~flushed[k].ok =>
      /\ error = "none"
      /\ \E j \in DOMAIN log : log[j].t = "write_failed" /\ log[j].n = flushed[k].index

\* C6 as stated: the only errors that leave collate_pdfs are the configuration
\* errors and the all-excluded condition.
C6_AsClaimed ==
  pc = "raised" => error \in {"no_source", "no_output", "no_pdf", "all_excluded"}

\* a file whose open or encrypted probe fails
Fails(name) ==
  \/ ~Opens(EntryOf(name).kind)
  \/ IsEncrypted(EntryOf(name).kind) /\ ~PagesReadable(EntryOf(name).kind)
Passes(name) == ~Fails(name)

\* the scan of phase 1 has gone over every candidate
Scanned ==
  \/ Packing
  \/ error = "all_excluded"
  \/ pc = "classify" /\ i = Len(all_files)

\* C7: when every candidate is excluded the run ends with the all-excluded
\* error, with no packing and no bundle flushed; a returned result or a run in
\* its packing phase has at least one usable candidate.
C7_AllExcluded ==
  /\ (Scanned /\ Len(excluded_files) = Len(all_files)) =>
       /\ pc \in {"classify", "raised"}
       /\ pc = "raised" => error = "all_excluded"
       /\ flushed = <<>>
       /\ current_batch = <<>>
       /\ result = NoResult
       /\ \A j \in DOMAIN log : log[j].t \notin {"phase2", "writing", "saved"}
  /\ error = "all_excluded" => Len(excluded_files) = Len(all_files) /\ flushed = <<>>
  /\ Packing => valid_files # <<>>
  /\ pc = "returned" => result.processed >= 1

C7_Witness ==
  /\ error = "all_excluded"
  /\ Len(all_files) >= 2
  /\ Len(excluded_files) = Len(all_files)

\* C8: a candidate whose open or encrypted probe fails is excluded and the
\* scan goes on: every candidate is classified, the excluded list is exactly
\* the failing candidates in scan order, the usable list is what classifying
\* the directory without the failing candidates gives, no failing candidate
\* is in a bundle, and the result lists exactly the excluded candidates.
C8_Isolation ==
  /\ (pc = "classify" /\ i < Len(all_files)) => ENABLED ClassifyOne
  /\ pc = "classify" => Len(valid_files) + Len(excluded_files) = i
  /\ Scanned =>
       /\ excluded_files = SelectSeq(all_files, Fails)
       /\ valid_files = ClassifyAll(SelectSeq(all_files, Passes)).valid
       /\ ClassifyAll(SelectSeq(all_files, Passes)).excluded = <<>>
  /\ Packing =>
       \A k \in DOMAIN flushed : \A m \in DOMAIN flushed[k].members :
         Passes(flushed[k].members[m])
  /\ pc = "returned" =>
       /\ result.skipped_files = SelectSeq(all_files, Fails)
       /\ result.skipped = Len(SelectSeq(all_files, Fails))

C8_Witness ==
  /\ pc = "returned"
  /\ Len(result.skipped_files) = 1
  /\ ~Opens(EntryOf(result.skipped_files[1]).kind)
  /\ all_files[1] = result.skipped_files[1]
  /\ Len(valid_files) >= 2
  /\ Len(Flatten(flushed)) >= 2

\* the number of candidates classified so far
Classified ==
  IF pc = "start" \/ error \in {"no_source", "no_output", "no_pdf"} THEN 0
  ELSE IF pc = "classify" THEN i
  ELSE Len(all_files)

\* C9: a classified candidate is usable exactly when it opens and is either
\* not encrypted or encrypted with a readable page count, and excluded exactly
\* when it does not open or is encrypted with an unreadable page count.
C9_UsableIff ==
  \A k \in 1..Classified :
    LET kind == EntryOf(all_files[k]).kind
    IN /\ InSeq(all_files[k], valid_files) <=>
            (Opens(kind) /\ (~IsEncrypted(kind) \/ PagesReadable(kind)))
       /\ InSeq(all_files[k], excluded_files) <=>
            (~Opens(kind) \/ (IsEncrypted(kind) /\ ~PagesReadable(kind)))

C9_Witness ==
  /\ Scanned
  /\ \E k \in DOMAIN valid_files : EntryOf(valid_files[k]).kind = "enc_open"
  /\ \E k \in DOMAIN valid_files : EntryOf(valid_files[k]).kind = "damaged"
  /\ \E k \in DOMAIN excluded_files : EntryOf(excluded_files[k]).kind = "enc_locked"

\* C10: when a configuration error is raised no candidate has been opened or
\* classified and no bundle has been built or written.
C10_ConfigErrorsFirst ==
  error \in {"no_source", "no_output", "no_pdf"} =>
    /\ pc = "raised"
    /\ i = 0
    /\ valid_files = <<>>
    /\ excluded_files = <<>>
    /\ current_batch = <<>>
    /\ flushed = <<>>
    /\ result = NoResult
    /\ \A j \in DOMAIN log : log[j].t = "scanning"

C10_Witness ==
  /\ error = "no_output"
  /\ \E k \in DOMAIN dir : IsPdfName(dir[k].name) /\ dir[k].kind = "plain"

\* the run has ended
Ended == pc \in {"returned", "raised"}

\* a member of the open bundle stays in it until it is handed to _write_batch
C11_MembersKept ==
  \A k \in DOMAIN current_batch :
    \/ InSeq(current_batch[k], current_batch')
    \/ InSeq(current_batch[k], Flatten(flushed'))

\* when the run has ended, the members of the last open bundle have been
\* handed to _write_batch, as the bundle of the current index
C11_TrailingFlushed ==
  (Ended /\ current_batch # <<>>) =>
    /\ flushed # <<>>
    /\ flushed[Len(flushed)].members = current_batch
    /\ flushed[Len(flushed)].index = batch_index

\* C11: the trailing bundle is not dropped: a candidate appended to a bundle
\* stays in the open bundle until that bundle is flushed, and when the run
\* has ended the last open bundle has been flushed, so that every candidate
\* appended to a bundle is part of a flush attempt.
C11_TrailingNeverDropped ==
  /\ [][C11_MembersKept]_vars
  /\ [](C11_TrailingFlushed)
  /\ [](Ended => \A k \in DOMAIN current_batch : InSeq(current_batch[k], Flatten(flushed)))

C11_Witness ==
  /\ pc = "returned"
  /\ Len(flushed) >= 2
  /\ Len(flushed[Len(flushed)].members) >= 1
  /\ flushed[Len(flushed)].members = current_batch
  /\ TotalSize(current_batch) < target_bytes

\* the names of the entries in the order of their slots
SlotListing == [k \in 1..Len(dir) |-> dir[k].name]

\* lines 105 to 131 run over a whole list of files whose size probe succeeds:
\* the member lists of the bundles, the trailing one included
RECURSIVE PackFrom(_, _, _, _)
PackFrom(rest, batch, batch_size, done) ==
  IF rest = <<>>
    THEN IF batch # <<>> THEN Append(done, batch) ELSE done
    ELSE IF batch # <<>> /\ batch_size + SizeOf(Head(rest)) > target_bytes
      THEN PackFrom(Tail(rest), <<Head(rest)>>, SizeOf(Head(rest)), Append(done, batch))
      ELSE PackFrom(Tail(rest), Append(batch, Head(rest)),
                    batch_size + SizeOf(Head(rest)), done)

\* the member lists of the flushed bundles, then the open bundle if any
BundleLists ==
  [k \in DOMAIN flushed |-> flushed[k].members]
    \o (IF OpenBatch = <<>> THEN <<>> ELSE <<OpenBatch>>)

\* the usable candidates handled so far whose size probe succeeded
HandledProbed == SelectSeq(SubSeq(valid_files, 1, i), Probed)

\* C12 as stated: whatever order the listing came in, the candidates are the
\* matching names in lexicographic order, the usable/excluded partition is the
\* classification of that list, and a run that got to packing ends with every
\* usable candidate handled and with the bundle sequence that the packing of
\* the usable candidates with a successful size probe gives.
C12_AsClaimed ==
  /\ pc # "start" /\ error \notin {"no_source", "no_output"} =>
       /\ all_files = ScanNames(SlotListing)
       /\ \A j \in DOMAIN all_files : \A k \in DOMAIN all_files :
            j < k => StrLess(all_files[j], all_files[k])
  /\ Scanned =>
       /\ valid_files = ClassifyAll(all_files).valid
       /\ excluded_files = ClassifyAll(all_files).excluded
  /\ Ended /\ Packing =>
       /\ i = Len(valid_files)
       /\ [k \in DOMAIN flushed |-> flushed[k].members]
            = PackFrom(SelectSeq(valid_files, Probed), <<>>, 0, <<>>)

\* C13 as stated: the returned bundle count is the number of bundles flushed.
C13_AsClaimed ==
  pc = "returned" => result.batches = Len(flushed)

\* C14 as stated: the candidates are exactly the entries of the source
\* directory that are not subdirectories and whose name ends in ".pdf"
\* whatever its case.
C14_AsClaimed ==
  pc # "start" /\ error \notin {"no_source", "no_output"} =>
    {all_files[k] : k \in DOMAIN all_files}
      = {dir[k].name : k \in {j \in DOMAIN dir :
                                /\ EndsWith(Lower(dir[j].name), DotPdf)
                                /\ dir[j].kind # "dir"}}

\* the files opened for writing by the flushes so far (line 40)
Touched == {flushed[k].path : k \in {j \in DOMAIN flushed : flushed[j].created}}

\* the files of the source directory
SourcePaths == {[folder |-> "src", name |-> dir[k].name] : k \in DOMAIN dir}

\* C15 as stated: the k-th flush has index k and writes only to the file of
\* the output directory named after k, distinct flushes write to distinct
\* files, and no file of the source directory is written.
C15_AsClaimed ==
  /\ \A k \in DOMAIN flushed :
       /\ flushed[k].index = k
       /\ flushed[k].path.folder = output_path
       /\ flushed[k].path.name = CollatedPart \o PadThree(k) \o DotPdf
  /\ \A j \in DOMAIN flushed : \A k \in DOMAIN flushed :
       j # k => flushed[j].path # flushed[k].path
  /\ Touched \cap SourcePaths = {}

\* names \subseteq of, without repetition and in the order of of
KeepsOrder(names, of) ==
  /\ \A k \in DOMAIN names : InSeq(names[k], of)
  /\ \A j \in DOMAIN names : \A k \in DOMAIN names :
       j < k => PosIn(names[j], of) < PosIn(names[k], of)

\* C16: once the scan is over every candidate is in exactly one of
\* valid_files and excluded_files, both lists keep the order of all_files,
\* and at no time is an excluded candidate a member of the open bundle or of a
\* flushed bundle.
C16_ExactlyOneList ==
  /\ Scanned =>
       /\ \A k \in DOMAIN all_files :
            InSeq(all_files[k], valid_files) # InSeq(all_files[k], excluded_files)
       /\ KeepsOrder(valid_files, all_files)
       /\ KeepsOrder(excluded_files, all_files)
  /\ \A k \in DOMAIN excluded_files :
       /\ ~InSeq(excluded_files[k], current_batch)
       /\ \A b \in DOMAIN flushed :
            /\ ~InSeq(excluded_files[k], flushed[b].members)
            /\ ~InSeq(excluded_files[k], flushed[b].appended)

C16_Witness ==
  /\ pc = "returned"
  /\ excluded_files # <<>>
  /\ Len(valid_files) >= 2
  /\ Len(flushed) >= 2
  /\ PosIn(excluded_files[1], all_files) < PosIn(valid_files[2], all_files)

\* the step at lines 112 to 116 for the next usable candidate
SkipsNext ==
  /\ pc = "pack"
  /\ i < Len(valid_files)
  /\ log' = Append(log, Line("skip_size", valid_files[i + 1], 0))

C17_SkipStep ==
  SkipsNext =>
    /\ current_batch' = current_batch
    /\ current_batch_size' = current_batch_size
    /\ batch_index' = batch_index
    /\ flushed' = flushed
    /\ i' = i + 1
    /\ pc' = pc
    /\ error' = error

C17_AsIfAbsent ==
  Packing =>
    /\ BundleLists = PackFrom(HandledProbed, <<>>, 0, <<>>)
    /\ pc = "pack" => current_batch_size = TotalSize(current_batch)
    /\ \A k \in 1..i : ~Probed(valid_files[k]) =>
         ~InSeq(valid_files[k], Flatten(flushed) \o current_batch)

\* C17: a failed size probe is logged and changes neither the open bundle,
\* its running size, the bundle index nor the flushed bundles, and the run
\* goes on with the next candidate; the candidate is in no bundle, and the
\* bundles are at all times the packing of the handled candidates without
\* those whose size probe failed.
C17_SoftProbeFailure ==
  /\ [][C17_SkipStep]_vars
  /\ [](C17_AsIfAbsent)

C17_Witness ==
  /\ pc = "returned"
  /\ Len(valid_files) = 3
  /\ Probed(valid_files[1]) /\ ~Probed(valid_files[2]) /\ Probed(valid_files[3])
  /\ flushed # <<>>
  /\ flushed[1].members = <<valid_files[1], valid_files[3]>>

\* the files named by the 'skipping' lines of _write_batch (line 38)
SkippedAppend == {log[k].f : k \in {j \in DOMAIN log : log[j].t = "skip_append"}}

\* the number of log lines of kind t
LinesOf(t) == Cardinality({k \in DOMAIN log : log[k].t = t})

RECURSIVE Dropped(_)
Dropped(calls) ==
  IF calls = <<>> THEN 0
  ELSE Len(Head(calls).members) - Len(Head(calls).appended) + Dropped(Tail(calls))

\* C18: in every flush each member is handed to merger.append once, in
\* order; the members in the written output are the members in order without
\* those whose append failed, each of which has one log line; and a flush
\* whose write succeeded has its 'saved' line whatever the append outcomes.
C18_OnlyFailedMemberDropped ==
  /\ \A b \in DOMAIN flushed :
       /\ flushed[b].attempts = flushed[b].members
       /\ KeepsOrder(flushed[b].appended, flushed[b].members)
       /\ \A k \in DOMAIN flushed[b].members :
            InSeq(flushed[b].members[k], flushed[b].appended)
              <=> flushed[b].members[k] \notin SkippedAppend
       /\ flushed[b].ok =>
            \E k \in DOMAIN log : log[k] = Line("saved", <<>>, flushed[b].index)
  /\ LinesOf("skip_append") = Dropped(flushed)
  /\ Cardinality(SkippedAppend) = Dropped(flushed)

C18_Witness ==
  \E b \in DOMAIN flushed :
    /\ Len(flushed[b].members) = 3
    /\ flushed[b].appended = <<flushed[b].members[1], flushed[b].members[3]>>
    /\ flushed[b].ok
    /\ pc = "returned"

PackingStep ==
  \/ SkippedSize' # SkippedSize
  \/ current_batch' # current_batch
  \/ current_batch_size' # current_batch_size
  \/ flushed' # flushed

\* a step that classifies a candidate
ClassifyStep ==
  \/ valid_files' # valid_files
  \/ excluded_files' # excluded_files

\* every candidate of the directory has been classified
AllClassified ==
  /\ pc # "start"
  /\ Len(valid_files) + Len(excluded_files) = Len(all_files)
  /\ \A k \in DOMAIN all_files :
       InSeq(all_files[k], valid_files) \/ InSeq(all_files[k], excluded_files)

PackingBegun ==
  \/ SkippedSize # {}
  \/ current_batch # <<>>
  \/ flushed # <<>>
  \/ \E k \in DOMAIN log : log[k].t = "phase2"

C20_PackAfterLast == PackingStep => AllClassified /\ ~ClassifyStep

C20_NoClassifyAfterPack == ClassifyStep => ~PackingBegun /\ ~PackingBegun'

\* C20: a step that probes a size, adds to a bundle or flushes is taken only
\* when every candidate of the directory has been classified, no step
\* classifies a candidate once packing has begun, and whenever packing has
\* begun the classification is complete.
C20_PhasesDoNotInterleave ==
  /\ [][C20_PackAfterLast]_vars
  /\ [][C20_NoClassifyAfterPack]_vars
  /\ [](PackingBegun => AllClassified)

C20_Witness ==
  /\ pc = "returned"
  /\ Len(all_files) >= 3
  /\ excluded_files # <<>>
  /\ IsLocked(EntryOf(all_files[Len(all_files)]).kind)
  /\ SkippedSize # {}
  /\ flushed # <<>>

\* a step that calls _write_batch
FlushStep == flushed' # flushed

\* names is bigger with one file added at its end
GrowsByOne(names, bigger) ==
  /\ Len(bigger) = Len(names) + 1
  /\ SubSeq(bigger, 1, Len(names)) = names

C21_IndexOrder ==
  \A k \in DOMAIN flushed : flushed[k].index = k

C21_FlushStep ==
  FlushStep =>
    /\ Len(flushed') = Len(flushed) + 1
    /\ SubSeq(flushed', 1, Len(flushed)) = flushed
    /\ flushed'[Len(flushed')].index = batch_index
    /\ flushed'[Len(flushed')].members = current_batch
    /\ current_batch # <<>>
    /\ \/ pc' = "pack" /\ batch_index' = batch_index + 1 /\ Len(current_batch') = 1
       \/ Ended' /\ batch_index' = batch_index /\ current_batch' = current_batch

C21_OpenBundleStep ==
  ~FlushStep =>
    /\ batch_index' = batch_index
    /\ \/ current_batch' = current_batch
       \/ GrowsByOne(current_batch, current_batch')

\* C21: the k-th flush has index k; a flush appends one record to the flushed
\* bundles and leaves the earlier records as they are, the record is the open
\* bundle under the current index, and the index goes up by one exactly when
\* the run goes on after the flush; without a flush the index stays and the
\* open bundle keeps its members or gains one at its end.
C21_BundleLifeCycle ==
  /\ [](C21_IndexOrder)
  /\ [][C21_FlushStep]_vars
  /\ [][C21_OpenBundleStep]_vars

C21_Witness ==
  /\ pc = "returned"
  /\ Len(flushed) >= 3
  /\ batch_index = 3
  /\ Len(flushed[1].members) >= 2

\* the notifications of a phase that has handled the items at the 0-based
\* positions below handled of a list of total items: one for every position
\* that is a multiple of 5
StatusExpected(phase, handled, total) ==
  [j \in 1..((handled + 4) \div 5) |->
     [t |-> phase, n |-> 5 * (j - 1) + 1, of |-> total]]

\* C22 as stated: with a status sink, the notifications sent so far are one
\* for every item handled so far at a position that is a multiple of 5, first
\* those of the classification and then those of the packing, whatever
\* happened to the items; without a sink there is none.
C22_AsClaimed ==
  IF status
    THEN status_calls =
           StatusExpected("scanning", Classified, Len(all_files))
             \o StatusExpected("collating", IF Packing THEN i ELSE 0, Len(valid_files))
    ELSE status_calls = <<>>

\* the log lines of kind t, in order
LinesOfKind(t) == SelectSeq(log, LAMBDA l : l.t = t)

\* the lines of the exclusion report and the all-valid line
ReportKinds == {"report_head", "report_skipped", "report_valid", "report_foot", "all_valid"}

\* the pass over all_files is over and the lines after it have been logged
Reported == Packing \/ error = "all_excluded"

\* C23: at all times the 'excluded' lines of the log name the excluded
\* candidates so far, one line each in order, so a line is logged in the step
\* that excludes the candidate and none for a usable one; no summary line
\* is logged while the pass runs; after it the log has the exclusion report
\* with the excluded and usable counts if a candidate was excluded and else
\* the one all-valid line, never both, after every 'excluded' line, and also
\* when the run ends with the all-excluded error.
C23_ClassifierLog ==
  /\ [k \in DOMAIN LinesOfKind("excluded") |-> LinesOfKind("excluded")[k].f] = excluded_files
  /\ ~Reported => \A k \in DOMAIN log : log[k].t \notin ReportKinds
  /\ Reported =>
       /\ IF excluded_files # <<>>
            THEN /\ LinesOfKind("report_head") = <<Line("report_head", <<>>, 0)>>
                 /\ LinesOfKind("report_skipped")
                      = <<Line("report_skipped", <<>>, Len(excluded_files))>>
                 /\ LinesOfKind("report_valid")
                      = <<Line("report_valid", <<>>, Len(valid_files))>>
                 /\ LinesOfKind("report_foot") = <<Line("report_foot", <<>>, 0)>>
                 /\ LinesOfKind("all_valid") = <<>>
            ELSE /\ LinesOfKind("all_valid") = <<Line("all_valid", <<>>, 0)>>
                 /\ \A k \in DOMAIN log :
                      log[k].t \notin (ReportKinds \ {"all_valid"})
       /\ \A j \in DOMAIN log : \A k \in DOMAIN log :
            log[j].t = "excluded" /\ log[k].t \in ReportKinds => j < k

C23_Witness ==
  /\ error = "all_excluded"
  /\ Len(excluded_files) >= 2
  /\ LinesOfKind("report_skipped") = <<Line("report_skipped", <<>>, Len(excluded_files))>>
  /\ LinesOfKind("report_valid") = <<Line("report_valid", <<>>, 0)>>

Discovered == {k \in DOMAIN dir : IsPdfName(dir[k].name)}

\* C25: in a returned result processed + skipped is the number of candidates
\* discovered, skipped is the length of skipped_files, and processed is at
\* least 1.
C25_ResultCounts ==
  pc = "returned" =>
    /\ result.processed + result.skipped = Cardinality(Discovered)
    /\ result.processed + result.skipped = Len(all_files)
    /\ result.skipped = Len(result.skipped_files)
    /\ result.processed >= 1

C25_Witness ==
  /\ pc = "returned"
  /\ result.processed = 1
  /\ result.skipped = 1
  /\ Len(result.skipped_files) = 1
  /\ Len(dir) = 3

\* ------------------------------------------------------- PDFCollatorApp
\* the number of clicks on the start button in one run of the application
MaxClicks == 3

\* what the entries can be set to: empty or a path, a number or not
Folders == {"", "dir"}
SizeStrs == {"80", "abc"}

\* lines 235 and 256: float(self.target_size_str.get()) returns
ParsesAsFloat(str) == str = "80"

\* the positions of a thread in process_pdfs and finish_processing
WorkerPcs == {"run", "info", "error", "finally", "reset", "enabled", "done"}

\* the status bar after collate_pdfs was called with status_var.set as sink
StatusTexts == {"Ready", "Scanning", "Collating"}

\* the collate_pdfs variables while the application is modelled
CollateIdle ==
  /\ srcExists = TRUE
  /\ outExists = TRUE
  /\ dir = <<>>
  /\ target_bytes \in Targets
  /\ output_path = "out"
  /\ close_raises = FALSE
  /\ status = TRUE
  /\ Locals0

GuiInit == GuiIdle /\ CollateIdle

collate == <<env, pc, all_files, i, valid_files, excluded_files, current_batch,
             current_batch_size, batch_index, flushed, log, result, error,
             status_calls>>

\* lines 207 to 215 and the entries of lines 162, 168: the user sets a folder
EditSource ==
  /\ \E path \in Folders : source_dir' = path
  /\ UNCHANGED <<collate, output_dir, target_size_str, status_var, is_processing,
                 start_btn, workers, clicks>>

EditOutput ==
  /\ \E path \in Folders : output_dir' = path
  /\ UNCHANGED <<collate, source_dir, target_size_str, status_var, is_processing,
                 start_btn, workers, clicks>>

\* line 180: the user sets the size
EditSize ==
  /\ \E str \in SizeStrs : target_size_str' = str
  /\ UNCHANGED <<collate, source_dir, output_dir, status_var, is_processing,
                 start_btn, workers, clicks>>

\* line 224: the request is dropped
StartRequested(processing) == processing

\* lines 223 to 248: a click on the start button (line 198), which Tk delivers
\* only while the button is not disabled
StartProcessingThread ==
  /\ start_btn = "normal"
  /\ clicks < MaxClicks
  /\ clicks' = clicks + 1
  /\ IF StartRequested(is_processing)
       THEN UNCHANGED <<is_processing, start_btn, workers>>
       ELSE IF source_dir = "" \/ output_dir = ""
         THEN UNCHANGED <<is_processing, start_btn, workers>>
         ELSE IF ~ParsesAsFloat(target_size_str)
           THEN UNCHANGED <<is_processing, start_btn, workers>>
           ELSE /\ is_processing' = TRUE
                /\ start_btn' = "disabled"
                /\ workers' = Append(workers, "run")
  /\ UNCHANGED <<collate, source_dir, output_dir, target_size_str, status_var>>

\* lines 251 to 268: the thread w reads the entries and calls collate_pdfs,
\* which returns or raises and leaves the text of its last status call, if
\* any, in the status bar
WorkerCollate(w) ==
  /\ workers[w] = "run"
  /\ \E outcome \in {"info", "error"} : workers' = [workers EXCEPT ![w] = outcome]
  /\ \E text \in StatusTexts \ {"Ready"} : status_var' \in {status_var, text}
  /\ UNCHANGED <<collate, source_dir, output_dir, target_size_str, is_processing,
                 start_btn, clicks>>

\* lines 270 to 281: the log line and the message box, until it is dismissed
WorkerDialog(w) ==
  /\ workers[w] \in {"info", "error"}
  /\ workers' = [workers EXCEPT ![w] = "finally"]
  /\ UNCHANGED <<collate, source_dir, output_dir, target_size_str, status_var,
                 is_processing, start_btn, clicks>>

\* line 293, called from the finally clause of line 283
FinishReset(w) ==
  /\ workers[w] = "finally"
  /\ is_processing' = FALSE
  /\ workers' = [workers EXCEPT ![w] = "reset"]
  /\ UNCHANGED <<collate, source_dir, output_dir, target_size_str, status_var,
                 start_btn, clicks>>

\* line 294
FinishButton(w) ==
  /\ workers[w] = "reset"
  /\ start_btn' = "normal"
  /\ workers' = [workers EXCEPT ![w] = "enabled"]
  /\ UNCHANGED <<collate, source_dir, output_dir, target_size_str, status_var,
                 is_processing, clicks>>

\* line 295; the thread ends
FinishStatus(w) ==
  /\ workers[w] = "enabled"
  /\ status_var' = "Ready"
  /\ workers' = [workers EXCEPT ![w] = "done"]
  /\ UNCHANGED <<collate, source_dir, output_dir, target_size_str, is_processing,
                 start_btn, clicks>>

GuiNext ==
  \/ EditSource
  \/ EditOutput
  \/ EditSize
  \/ StartProcessingThread
  \/ \E w \in DOMAIN workers : WorkerCollate(w)
  \/ \E w \in DOMAIN workers : WorkerDialog(w)
  \/ \E w \in DOMAIN workers : FinishReset(w)
  \/ \E w \in DOMAIN workers : FinishButton(w)
  \/ \E w \in DOMAIN workers : FinishStatus(w)

GuiSpec == GuiInit /\ [][GuiNext]_vars

GuiTypeOK ==
  /\ source_dir \in Folders
  /\ output_dir \in Folders
  /\ target_size_str \in SizeStrs
  /\ status_var \in StatusTexts
  /\ is_processing \in BOOLEAN
  /\ start_btn \in {"normal", "disabled"}
  /\ clicks \in 0..MaxClicks
  /\ \A w \in DOMAIN workers : workers[w] \in WorkerPcs

\* the threads started on process_pdfs that have not ended
ActiveWorkers == {w \in DOMAIN workers : workers[w] # "done"}

\* the threads that have not yet run line 293
ProcessingWorkers == {w \in DOMAIN workers : workers[w] \in {"run", "info", "error", "finally"}}

\* C26 as stated: at most one thread started on process_pdfs is active at
\* any time, a thread is started only by a request that finds is_processing
\* false and sets it, and is_processing stays true until the thread runs
\* finish_processing.
C26_AsClaimed ==
  /\ Cardinality(ActiveWorkers) <= 1
  /\ ProcessingWorkers # {} => is_processing /\ start_btn = "disabled"

====
